---- MODULE Spec2Model ----
(***************************************************************************)
(* Model of the InsureWatch API gateway (src/src/index.js, logger.js).     *)
(*                                                                         *)
(* Node runs one callback at a time, so each action below is one run of    *)
(* synchronous code between two suspension points of a request:            *)
(*   Receive       the metrics/logging middleware, then the matched route  *)
(*                 handler up to its `await axios(...)` (or, for /health,  *)
(*                 up to res.json);                                        *)
(*   AxiosResolve  the downstream answered with an accepted status: the    *)
(*                 rest of forwardRequest's try block, then the rest of    *)
(*                 the handler's try block;                                *)
(*   AxiosReject   axios rejected: forwardRequest's catch block, then the  *)
(*                 handler's catch block;                                  *)
(*   Finish        the response was handed to the socket: the 'finish'     *)
(*                 listener the middleware registered.                     *)
(* Requests are those that passed cors() and express.json() and match one  *)
(* of the nine registered routes.                                          *)
(***************************************************************************)
EXTENDS Integers, Sequences, FiniteSets, Bags, TLC

\* ------------------------------------------------------------------ bounds
NumReq == 2
MaxTime == 2
MaxEnvLen == 3

Req == 1..NumReq

\* ------------------------------------------------------- program constants
\* the fallback of `err.response?.status || 503`, and the 503 of the chaos routes
Unavailable == 503
\* `res.statusCode >= 400` in the 'finish' listener
ErrorThreshold == 400
\* the fallback of `parseInt(process.env.REQUEST_TIMEOUT_MS) || 10000`
DefaultTimeout == 10000

\* const SERVICES = {...}: the defaults used when the environment sets none
SERVICES ==
  [claims       |-> "http://localhost:3001",
   policy       |-> "http://localhost:8080",
   investment   |-> "http://localhost:3002",
   notification |-> "http://localhost:3003",
   chaos        |-> "http://localhost:3004"]

\* --------------------------------------------------------------- inputs
Ids == {"C42"}
Payloads == {[policyId |-> "P1"]}
NoBody == [none |-> TRUE]

\* What a downstream can answer: a status line and a JSON body.
DownstreamAnswers ==
  {[status |-> 201, data |-> [claimId |-> "C9"]],
   [status |-> 404, data |-> [error |-> "not found"]]}
\* How an outbound call can end without an answer (axios err.code).
TransportCodes == {"ECONNABORTED", "ECONNREFUSED"}

\* ------------------------------------------------------------ route table
\* One record per app.get/app.post registration, in registration order.
\* pattern: the inbound path split at "/", ":p" a path parameter;
\* fwdPrefix/fwdParam/fwdSuffix: the template literal given to forwardRequest;
\* sendsBody: req.body (TRUE) or null (FALSE) is given as data;
\* preLog/postLog/errLog: the logger call before the forward, after it, and in
\* the catch block ("none" when the handler has none);
\* errFromDownstream: the catch block answers err.response?.status || 503
\* (TRUE) or a literal 503 (FALSE); errDetails: the body carries err.message.
Health ==
  [name |-> "Health", method |-> "GET", pattern |-> <<"health">>,
   forwards |-> FALSE, service |-> "none", fwdMethod |-> "none",
   fwdPrefix |-> <<>>, fwdParam |-> FALSE, fwdSuffix |-> <<>>,
   sendsBody |-> FALSE, preLog |-> "none", postLog |-> "none",
   errLog |-> "none", errFromDownstream |-> FALSE,
   errText |-> "none", errDetails |-> FALSE]

PostClaims ==
  [name |-> "PostClaims", method |-> "POST", pattern |-> <<"api", "claims">>,
   forwards |-> TRUE, service |-> "claims", fwdMethod |-> "POST",
   fwdPrefix |-> <<"claims">>, fwdParam |-> FALSE, fwdSuffix |-> <<>>,
   sendsBody |-> TRUE, preLog |-> "Forwarding claim submission",
   postLog |-> "none", errLog |-> "Claims service error",
   errFromDownstream |-> TRUE, errText |-> "Claims service unavailable",
   errDetails |-> TRUE]

GetClaim ==
  [name |-> "GetClaim", method |-> "GET", pattern |-> <<"api", "claims", ":p">>,
   forwards |-> TRUE, service |-> "claims", fwdMethod |-> "GET",
   fwdPrefix |-> <<"claims">>, fwdParam |-> TRUE, fwdSuffix |-> <<>>,
   sendsBody |-> FALSE, preLog |-> "none", postLog |-> "none",
   errLog |-> "Claims fetch error", errFromDownstream |-> TRUE,
   errText |-> "Claims service unavailable", errDetails |-> FALSE]

ListClaims ==
  [name |-> "ListClaims", method |-> "GET", pattern |-> <<"api", "claims">>,
   forwards |-> TRUE, service |-> "claims", fwdMethod |-> "GET",
   fwdPrefix |-> <<"claims">>, fwdParam |-> FALSE, fwdSuffix |-> <<>>,
   sendsBody |-> FALSE, preLog |-> "none", postLog |-> "none",
   errLog |-> "Claims list error", errFromDownstream |-> TRUE,
   errText |-> "Claims service unavailable", errDetails |-> FALSE]

GetPolicy ==
  [name |-> "GetPolicy", method |-> "GET", pattern |-> <<"api", "policy", ":p">>,
   forwards |-> TRUE, service |-> "policy", fwdMethod |-> "GET",
   fwdPrefix |-> <<"policy">>, fwdParam |-> TRUE, fwdSuffix |-> <<>>,
   sendsBody |-> FALSE, preLog |-> "none", postLog |-> "none",
   errLog |-> "Policy service error", errFromDownstream |-> TRUE,
   errText |-> "Policy service unavailable", errDetails |-> FALSE]

GetCoverage ==
  [name |-> "GetCoverage", method |-> "GET",
   pattern |-> <<"api", "policy", ":p", "coverage">>,
   forwards |-> TRUE, service |-> "policy", fwdMethod |-> "GET",
   fwdPrefix |-> <<"policy">>, fwdParam |-> TRUE, fwdSuffix |-> <<"coverage">>,
   sendsBody |-> FALSE, preLog |-> "none", postLog |-> "none",
   errLog |-> "Coverage fetch error", errFromDownstream |-> TRUE,
   errText |-> "Policy service unavailable", errDetails |-> FALSE]

GetInvestments ==
  [name |-> "GetInvestments", method |-> "GET",
   pattern |-> <<"api", "investments", ":p">>,
   forwards |-> TRUE, service |-> "investment", fwdMethod |-> "GET",
   fwdPrefix |-> <<"investments">>, fwdParam |-> TRUE, fwdSuffix |-> <<>>,
   sendsBody |-> FALSE, preLog |-> "none", postLog |-> "none",
   errLog |-> "Investment service error", errFromDownstream |-> TRUE,
   errText |-> "Investment service unavailable", errDetails |-> FALSE]

ChaosStatus ==
  [name |-> "ChaosStatus", method |-> "GET",
   pattern |-> <<"api", "chaos", "status">>,
   forwards |-> TRUE, service |-> "chaos", fwdMethod |-> "GET",
   fwdPrefix |-> <<"chaos", "status">>, fwdParam |-> FALSE, fwdSuffix |-> <<>>,
   sendsBody |-> FALSE, preLog |-> "none", postLog |-> "none",
   errLog |-> "none", errFromDownstream |-> FALSE,
   errText |-> "Chaos controller unavailable", errDetails |-> FALSE]

ChaosToggle ==
  [name |-> "ChaosToggle", method |-> "POST",
   pattern |-> <<"api", "chaos", "toggle">>,
   forwards |-> TRUE, service |-> "chaos", fwdMethod |-> "POST",
   fwdPrefix |-> <<"chaos", "toggle">>, fwdParam |-> FALSE, fwdSuffix |-> <<>>,
   sendsBody |-> TRUE, preLog |-> "none", postLog |-> "Chaos toggle activated",
   errLog |-> "none", errFromDownstream |-> FALSE,
   errText |-> "Chaos controller unavailable", errDetails |-> FALSE]

Routes ==
  <<Health, PostClaims, GetClaim, ListClaims, GetPolicy, GetCoverage,
    GetInvestments, ChaosStatus, ChaosToggle>>

\* Express matches a request against the registrations in order: same method,
\* same number of segments, every literal segment equal.
Matches(h, q) ==
  /\ h.method = q.method
  /\ Len(h.pattern) = Len(q.path)
  /\ \A i \in 1..Len(h.pattern) : h.pattern[i] = ":p" \/ h.pattern[i] = q.path[i]

RouteOf(q) ==
  LET hits == {i \in 1..Len(Routes) : Matches(Routes[i], q)}
  IN  Routes[CHOOSE i \in hits : \A j \in hits : i <= j]

\* The inbound requests: one shape per registered route.
GetPaths ==
  {<<"health">>, <<"api", "claims">>, <<"api", "chaos", "status">>}
    \cup {<<"api", "claims", id>> : id \in Ids}
    \cup {<<"api", "policy", id>> : id \in Ids}
    \cup {<<"api", "policy", id, "coverage">> : id \in Ids}
    \cup {<<"api", "investments", id>> : id \in Ids}
PostPaths == {<<"api", "claims">>, <<"api", "chaos", "toggle">>}

InboundRequests ==
  {[method |-> "GET", path |-> p, body |-> NoBody] : p \in GetPaths}
    \cup {[method |-> "POST", path |-> p, body |-> b] :
            p \in PostPaths, b \in Payloads}

NoRequest == [method |-> "none", path |-> <<>>, body |-> NoBody]

\* ---------------------------------------------------------- trace context
\* The span that is active while the callbacks of request r run: the server
\* span the HTTP instrumentation opened for it (its identifiers continued from
\* the inbound header or freshly generated; either way one trace per request).
\* (variant: one process-wide current span instead of one per request)
ActiveSpanShared(r) ==
  [traceId |-> "t1", spanId |-> "s1.0", traceFlags |-> 1]
ActiveSpan(r) ==
  [traceId |-> "t" \o ToString(r), spanId |-> "s" \o ToString(r) \o ".0",
   traceFlags |-> 1]

\* no span is active outside the callbacks of a request
NoSpan == [traceId |-> "none", spanId |-> "none", traceFlags |-> 0]

\* the identifier tracer.startSpan generates for the n-th span under `parent`
NewSpanId(parent, n) == parent.spanId \o "." \o ToString(n)

\* the W3C traceparent value of a span context
Traceparent(ctx) == "00-" \o ctx.traceId \o "-" \o ctx.spanId \o "-01"

\* propagation.inject(ctx, carrier): sets the trace header of the carrier,
\* overwriting one that is there, and leaves every other header alone; with
\* no span in ctx it sets nothing.
Inject(ctx, carrier) ==
  IF ctx = NoSpan THEN carrier
  ELSE [n \in DOMAIN carrier \cup {"traceparent"} |->
          IF n = "traceparent" THEN Traceparent(ctx) ELSE carrier[n]]

\* const outgoingHeaders = { ...headers }; propagation.inject(context.active(),
\* outgoingHeaders): the caller's map afterwards, and the map given to axios
\* (variant: injecting into the caller's map itself)
OutgoingHeadersInPlace(headers, ctx) ==
  [caller |-> Inject(ctx, headers), outgoing |-> Inject(ctx, headers)]
OutgoingHeaders(headers, ctx) ==
  [caller |-> headers, outgoing |-> Inject(ctx, headers)]

\* the header maps a caller of forwardRequest can pass (the route handlers
\* pass none: `headers = {}`)
HeaderNames == {"accept", "traceparent", "x-request-id"}
HeaderValues == {"v1", "v2"}
NoHeaders == [n \in {} |-> "v1"]
HeaderMaps ==
  UNION {[D -> HeaderValues] : D \in SUBSET HeaderNames}

\* ------------------------------------------------------------ the timeout
\* process.env.REQUEST_TIMEOUT_MS: unset, or a string, here of at most
\* MaxEnvLen characters
EnvChars == {" ", "-", "+", ".", "0", "1", "7", "a"}
EnvUnset == [set |-> FALSE, chars |-> <<>>]
EnvStrings ==
  UNION {[1..n -> EnvChars] : n \in 0..MaxEnvLen}
EnvValues ==
  {EnvUnset} \cup {[set |-> TRUE, chars |-> c] : c \in EnvStrings}

IsDigit(c) == c \in {"0", "1", "2", "3", "4", "5", "6", "7", "8", "9"}
DigitValue(c) ==
  CASE c = "0" -> 0 [] c = "1" -> 1 [] c = "2" -> 2 [] c = "3" -> 3
    [] c = "4" -> 4 [] c = "5" -> 5 [] c = "6" -> 6 [] c = "7" -> 7
    [] c = "8" -> 8 [] c = "9" -> 9

\* parseInt's steps: leading white space is skipped, ...
RECURSIVE SkipSpace(_)
SkipSpace(c) ==
  IF c # <<>> /\ Head(c) = " " THEN SkipSpace(Tail(c)) ELSE c

\* ... then the longest prefix of decimal digits is read, ...
RECURSIVE ReadDigits(_, _, _)
ReadDigits(c, seen, acc) ==
  IF c # <<>> /\ IsDigit(Head(c))
    THEN ReadDigits(Tail(c), seen + 1, 10 * acc + DigitValue(Head(c)))
    ELSE [digits |-> seen, value |-> acc]

\* ... after one optional sign; the result is NaN when no digit was read.
\* parseInt(undefined) reads the string "undefined", hence NaN.
ParseInt(e) ==
  LET c == SkipSpace(e.chars)
      signed == c # <<>> /\ Head(c) \in {"-", "+"}
      d == ReadDigits(IF signed THEN Tail(c) ELSE c, 0, 0)
  IN  IF ~e.set \/ d.digits = 0 THEN [nan |-> TRUE, value |-> 0]
      ELSE [nan |-> FALSE,
            value |-> IF signed /\ Head(c) = "-" THEN 0 - d.value ELSE d.value]

\* parseInt(process.env.REQUEST_TIMEOUT_MS) || 10000: NaN and 0 are falsy
Timeout(e) ==
  LET n == ParseInt(e)
  IN  IF n.nan \/ n.value = 0 THEN DefaultTimeout ELSE n.value

\* ------------------------------------------------------------------ state
VARIABLES
  pc,               \* per request: "idle", "awaiting", "responded", "completed"
  req,              \* per request: the inbound request (req.method, req.path, req.body)
  start,            \* per request: the middleware's `start`
  outbound,         \* per request: the axios calls issued, in order
  downstream,       \* per request: how the outbound call ended
  spans,            \* per request: the spans forwardRequest started, in order
  res,              \* per request: the response object (statusCode, body, times sent)
  events,           \* per request: the log messages written and the calls made
                    \* on spans, axios, res and the meters, in program order
  requestCounter,   \* gateway.requests.total: a bag of label records
  errorCounter,     \* gateway.errors.total: a bag of label records
  requestDuration,  \* gateway.request.duration: a bag of [labels, value]
  now,              \* Date.now()
  logs,             \* per request: the records the logger wrote in its callbacks
  bootLog,          \* the records the logger wrote outside any request
  env,              \* process.env.REQUEST_TIMEOUT_MS
  hdrArg            \* the `headers` argument of forwardRequest, as its caller
                    \* sees it

vars ==
  <<pc, req, start, outbound, downstream, spans, res, events,
    requestCounter, errorCounter, requestDuration, now, logs, bootLog,
    env, hdrArg>>

\* logger.info/warn/error(message, ...): one record on the console transport
Log(message) == <<message>>
LogIf(message) == IF message = "none" THEN <<>> ELSE Log(message)

\* traceContextFormat: the identifiers of the active span are added to the
\* record when there is one; the record is returned either way
TraceContextFormat(info, span) ==
  IF span = NoSpan THEN info
  ELSE [message |-> info.message, traceId |-> span.traceId,
        spanId |-> span.spanId, traceFlags |-> span.traceFlags]
\* the record the logger writes for a message while `span` is active
Record(message, span) == <<TraceContextFormat([message |-> message], span)>>
RecordIf(message, span) ==
  IF message = "none" THEN <<>> ELSE Record(message, span)

NoOutcome == [kind |-> "none", status |-> 0, data |-> NoBody, code |-> "none"]
Responses ==
  {[kind |-> "response", status |-> a.status, data |-> a.data, code |-> "none"] :
     a \in DownstreamAnswers}
Failures ==
  {[kind |-> "noresponse", status |-> 0, data |-> NoBody, code |-> c] :
     c \in TransportCodes}

\* ------------------------------------------------------------------ axios
\* axios resolves when validateStatus accepts the status (the default, as the
\* call sets none: 2xx), and rejects with err.response set otherwise; without
\* an answer it rejects with err.response undefined and err.code set.
\* (variant: validateStatus accepting every status the downstream sends)
ValidateStatusAny(status) == status >= 200
ValidateStatus(status) == status >= 200 /\ status < 300

AxiosResolves(outcome) ==
  outcome.kind = "response" /\ ValidateStatus(outcome.status)

\* the rejection: err.response?.status (0 when err.response is undefined),
\* err.code and err.message
AxiosError(outcome) ==
  IF outcome.kind = "response"
    THEN [hasResponse |-> TRUE, status |-> outcome.status,
          code |-> IF outcome.status >= 500 THEN "ERR_BAD_RESPONSE"
                                            ELSE "ERR_BAD_REQUEST",
          message |-> "Request failed with status code " \o ToString(outcome.status)]
    ELSE [hasResponse |-> FALSE, status |-> 0, code |-> outcome.code,
          message |-> IF outcome.code = "ECONNABORTED"
                        THEN "timeout exceeded"
                        ELSE "connect " \o outcome.code]

\* ---------------------------------------------------------- forwardRequest
\* tracer.startSpan(`forward ${path}`)
\* the new span is a child of the active one: same trace, an identifier of
\* its own; startSpan does not make it the active span
StartSpan(parent, path) ==
  [name |-> <<"forward">> \o path, statusCode |-> 0, error |-> FALSE,
   exception |-> "none", ends |-> 0,
   traceId |-> parent.traceId, spanId |-> NewSpanId(parent, 1),
   parentSpanId |-> parent.spanId]

\* span.end()
SpanEnd(span) == [span EXCEPT !.ends = @ + 1]

\* (variant: the try block without its span.end())
SpanOnResponseNoEnd(span, status) == [span EXCEPT !.statusCode = status]
\* try block after the await: setAttribute('http.status_code', ...); end()
SpanOnResponse(span, status) == SpanEnd([span EXCEPT !.statusCode = status])

\* (variant: the catch block without its span.end())
SpanOnErrorNoEnd(span, err) ==
  [span EXCEPT !.exception = err.message, !.error = TRUE]
\* catch block: recordException(err); setAttribute('error', true); end()
SpanOnError(span, err) ==
  SpanEnd([span EXCEPT !.exception = err.message, !.error = TRUE])

\* req.params.id / req.params.customerId: Express matches the parameter on
\* the path as it was sent and hands the handler its decodeURIComponent. Of
\* the identifiers in use one has an escape, %2F, which decodes to a slash.
DecodeParam(segment) ==
  CASE segment = "C%2F42" -> "C/42"
    [] OTHER -> segment

\* the path a handler gives to forwardRequest: its template literal, with
\* the decoded parameter put in as it is
ForwardPath(h, q) ==
  h.fwdPrefix \o (IF h.fwdParam THEN <<DecodeParam(q.path[3])>> ELSE <<>>)
    \o h.fwdSuffix

\* the axios request config
OutboundCall(h, q, headers, timeout) ==
  [method  |-> h.fwdMethod,
   url     |-> <<SERVICES[h.service]>> \o ForwardPath(h, q),
   data    |-> IF h.sendsBody THEN q.body ELSE NoBody,
   headers |-> headers,
   timeout |-> timeout]

\* ------------------------------------------------------------- responses
NewResponse == [statusCode |-> 200, body |-> NoBody, sent |-> 0]
\* res.status(code)
ResStatus(r, code) == [r EXCEPT !.statusCode = code]
\* res.json(body)
ResJson(r, body) == [r EXCEPT !.body = body, !.sent = @ + 1]

\* (variant: err.response?.status || 500)
ErrStatusFallback500(err) ==
  IF err.hasResponse /\ err.status # 0 THEN err.status ELSE 500
\* err.response?.status || 503
ErrStatus(err) == IF err.hasResponse /\ err.status # 0 THEN err.status ELSE Unavailable

\* (variant: every catch block answering the literal 503 of the chaos routes)
CatchStatusLiteral(h, err) == Unavailable
\* the status a handler's catch block answers with
CatchStatus(h, err) == IF h.errFromDownstream THEN ErrStatus(err) ELSE Unavailable

\* the body a handler's catch block answers with
CatchBody(h, err) ==
  IF h.errDetails THEN [error |-> h.errText, details |-> err.message]
                  ELSE [error |-> h.errText]

HealthBody == [status |-> "ok", service |-> "api-gateway"]

\* ----------------------------------------------------------------- metrics
\* the label record built in the 'finish' listener
Labels(q, r) ==
  [method |-> q.method, route |-> q.path, status |-> ToString(r.statusCode)]

\* (variant: only 5xx counted as errors)
IsErrorServerOnly(statusCode) == statusCode >= 500
\* res.statusCode >= 400
IsError(statusCode) == statusCode >= ErrorThreshold

\* (variant: the counter incremented a second time for the same request)
CountRequestTwice(counter, labels) ==
  counter (+) SetToBag({labels}) (+) SetToBag({labels})
\* requestCounter.add(1, labels)
CountRequest(counter, labels) == counter (+) SetToBag({labels})

\* ------------------------------------------------------------------ Init
InitRequests ==
  /\ pc = [r \in Req |-> "idle"]
  /\ req = [r \in Req |-> NoRequest]
  /\ start = [r \in Req |-> 0]
  /\ outbound = [r \in Req |-> <<>>]
  /\ downstream = [r \in Req |-> NoOutcome]
  /\ spans = [r \in Req |-> <<>>]
  /\ res = [r \in Req |-> NewResponse]
  /\ events = [r \in Req |-> <<>>]
  /\ requestCounter = EmptyBag
  /\ errorCounter = EmptyBag
  /\ requestDuration = EmptyBag
  /\ now = 0
  /\ logs = [r \in Req |-> <<>>]
  /\ bootLog = <<>>

\* the deployment leaves REQUEST_TIMEOUT_MS unset, and no route handler
\* passes headers to forwardRequest
Init ==
  /\ InitRequests
  /\ env = EnvUnset
  /\ hdrArg = NoHeaders

\* ---------------------------------------------------------------- actions
\* app.use((req, res, next) => ...) followed by the matched route handler, up
\* to the first suspension: /health answers at once, every other handler logs
\* (POST /api/claims only), enters forwardRequest, starts the span and issues
\* its one axios call.
HandlerBegin(h, q) ==
  IF h.forwards
    THEN LogIf(h.preLog) \o <<"span.start", "axios">>
    ELSE <<"res.json">>

\* (variant: a second attempt issued next to the first)
IssueOutboundTwice(h, q, headers, timeout) ==
  IF h.forwards
    THEN <<OutboundCall(h, q, headers, timeout),
           OutboundCall(h, q, headers, timeout)>>
    ELSE <<>>
\* the axios calls a handler issues on entry
IssueOutbound(h, q, headers, timeout) ==
  IF h.forwards THEN <<OutboundCall(h, q, headers, timeout)>> ELSE <<>>

\* app.listen(PORT, () => logger.info('API Gateway started', ...)): the
\* callback runs once, when the server starts listening, in no span
Listen ==
  /\ bootLog = <<>>
  /\ bootLog' = Record("API Gateway started", NoSpan)
  /\ UNCHANGED <<pc, req, start, outbound, downstream, spans, res, events,
                 requestCounter, errorCounter, requestDuration, now, logs,
                 env, hdrArg>>

Receive(r, q) ==
  LET h == RouteOf(q)
      active == ActiveSpan(r)
      hdrs == OutgoingHeaders(hdrArg, active)
  IN
  /\ bootLog # <<>>
  /\ pc[r] = "idle"
  /\ req' = [req EXCEPT ![r] = q]
  /\ start' = [start EXCEPT ![r] = now]
  /\ events' = [events EXCEPT ![r] =
                  Log("Incoming request") \o HandlerBegin(h, q)]
  /\ logs' = [logs EXCEPT ![r] =
                Record("Incoming request", active)
                  \o (IF h.forwards THEN RecordIf(h.preLog, active) ELSE <<>>)]
  /\ outbound' = [outbound EXCEPT ![r] =
                    IssueOutbound(h, q, hdrs.outgoing, Timeout(env))]
  /\ hdrArg' = IF h.forwards THEN hdrs.caller ELSE hdrArg
  /\ spans' = [spans EXCEPT ![r] =
                 IF h.forwards
                   THEN <<StartSpan(active, ForwardPath(h, q))>> ELSE <<>>]
  /\ res' = [res EXCEPT ![r] =
               IF h.forwards THEN @ ELSE ResJson(@, HealthBody)]
  /\ pc' = [pc EXCEPT ![r] = IF h.forwards THEN "awaiting" ELSE "responded"]
  /\ UNCHANGED <<downstream, requestCounter, errorCounter, requestDuration,
                 now, bootLog, env>>

\* The awaited axios promise resolves: forwardRequest records the status on
\* its span, ends it and returns response.data; the handler logs (chaos
\* toggle only) and answers res.json(result).
AxiosResolve(r, o) ==
  LET h == RouteOf(req[r]) IN
  /\ pc[r] = "awaiting"
  /\ AxiosResolves(o)
  /\ downstream' = [downstream EXCEPT ![r] = o]
  /\ spans' = [spans EXCEPT ![r][Len(spans[r])] = SpanOnResponse(@, o.status)]
  /\ res' = [res EXCEPT ![r] = ResJson(@, o.data)]
  /\ events' = [events EXCEPT ![r] =
                  @ \o <<"span.end">> \o LogIf(h.postLog) \o <<"res.json">>]
  /\ logs' = [logs EXCEPT ![r] = @ \o RecordIf(h.postLog, ActiveSpan(r))]
  /\ pc' = [pc EXCEPT ![r] = "responded"]
  /\ UNCHANGED <<req, start, outbound, requestCounter, errorCounter,
                 requestDuration, now, bootLog, env, hdrArg>>

\* (variant: a catch block that logs and returns without answering)
AxiosRejectUnanswered(r, o) ==
  LET h == RouteOf(req[r])
      err == AxiosError(o)
  IN
  /\ pc[r] = "awaiting"
  /\ ~AxiosResolves(o)
  /\ downstream' = [downstream EXCEPT ![r] = o]
  /\ spans' = [spans EXCEPT ![r][Len(spans[r])] = SpanOnError(@, err)]
  /\ events' = [events EXCEPT ![r] = @ \o <<"span.end">> \o LogIf(h.errLog)]
  /\ logs' = [logs EXCEPT ![r] = @ \o RecordIf(h.errLog, ActiveSpan(r))]
  /\ pc' = [pc EXCEPT ![r] = "unanswered"]
  /\ UNCHANGED <<req, start, outbound, res, requestCounter, errorCounter,
                 requestDuration, now, bootLog, env, hdrArg>>

\* The awaited axios promise rejects: forwardRequest records the exception,
\* flags and ends its span and rethrows; the handler's catch block logs (not
\* the chaos routes) and answers with its error status and body.
AxiosReject(r, o) ==
  LET h == RouteOf(req[r])
      err == AxiosError(o)
  IN
  /\ pc[r] = "awaiting"
  /\ ~AxiosResolves(o)
  /\ downstream' = [downstream EXCEPT ![r] = o]
  /\ spans' = [spans EXCEPT ![r][Len(spans[r])] = SpanOnError(@, err)]
  /\ res' = [res EXCEPT ![r] =
               ResJson(ResStatus(@, CatchStatus(h, err)), CatchBody(h, err))]
  /\ events' = [events EXCEPT ![r] =
                  @ \o <<"span.end">> \o LogIf(h.errLog) \o <<"res.json">>]
  /\ logs' = [logs EXCEPT ![r] = @ \o RecordIf(h.errLog, ActiveSpan(r))]
  /\ pc' = [pc EXCEPT ![r] = "responded"]
  /\ UNCHANGED <<req, start, outbound, requestCounter, errorCounter,
                 requestDuration, now, bootLog, env, hdrArg>>

\* res.on('finish', ...): the counter, the histogram, the error counter when
\* the status is an error, and the completion log.
ErrorSamples(labels, statusCode) ==
  IF IsError(statusCode) THEN SetToBag({labels}) ELSE EmptyBag

\* (variant: one `start` for the whole module, overwritten by every request)
StartShared(starts, r) ==
  CHOOSE t \in {starts[x] : x \in Req} : \A x \in Req : starts[x] <= t
\* the `start` the 'finish' listener closes over: the one of its own request
StartOf(starts, r) == starts[r]

\* (variant: the listener registered for 'finish' and for 'close', so that it
\* runs again for a request that completed)
FinishAgain(r) ==
  LET labels == Labels(req[r], res[r])
      errs == ErrorSamples(labels, res[r].statusCode)
  IN
  /\ pc[r] \in {"responded", "completed"}
  /\ requestCounter' = CountRequest(requestCounter, labels)
  /\ requestDuration' =
       requestDuration
         (+) SetToBag({[labels |-> labels, value |-> now - StartOf(start, r)]})
  /\ errorCounter' = errorCounter (+) errs
  /\ events' = [events EXCEPT ![r] =
                  @ \o <<"requestCounter.add", "requestDuration.record">>
                    \o (IF errs = EmptyBag THEN <<>> ELSE <<"errorCounter.add">>)
                    \o Log("Request completed")]
  /\ logs' = [logs EXCEPT ![r] = @ \o Record("Request completed", ActiveSpan(r))]
  /\ pc' = [pc EXCEPT ![r] = "completed"]
  /\ UNCHANGED <<req, start, outbound, downstream, spans, res, now, bootLog,
                 env, hdrArg>>

Finish(r) ==
  LET duration == now - StartOf(start, r)
      labels == Labels(req[r], res[r])
      errs == ErrorSamples(labels, res[r].statusCode)
  IN
  /\ pc[r] = "responded"
  /\ requestCounter' = CountRequest(requestCounter, labels)
  /\ requestDuration' =
       requestDuration (+) SetToBag({[labels |-> labels, value |-> duration]})
  /\ errorCounter' = errorCounter (+) errs
  /\ events' = [events EXCEPT ![r] =
                  @ \o <<"requestCounter.add", "requestDuration.record">>
                    \o (IF errs = EmptyBag THEN <<>> ELSE <<"errorCounter.add">>)
                    \o Log("Request completed")]
  /\ logs' = [logs EXCEPT ![r] = @ \o Record("Request completed", ActiveSpan(r))]
  /\ pc' = [pc EXCEPT ![r] = "completed"]
  /\ UNCHANGED <<req, start, outbound, downstream, spans, res, now, bootLog,
                 env, hdrArg>>

\* the wall clock advances between callbacks; only the time that passes while
\* a request is in flight enters a duration
Tick ==
  /\ now < MaxTime
  /\ \E r \in Req : pc[r] \in {"awaiting", "responded"}
  /\ now' = now + 1
  /\ UNCHANGED <<pc, req, start, outbound, downstream, spans, res, events,
                 requestCounter, errorCounter, requestDuration, logs, bootLog,
                 env, hdrArg>>

Next ==
  \/ Listen
  \/ \E r \in Req, q \in InboundRequests : Receive(r, q)
  \/ \E r \in Req, o \in Responses \cup Failures : AxiosResolve(r, o)
  \/ \E r \in Req, o \in Responses \cup Failures : AxiosReject(r, o)
  \/ \E r \in Req : Finish(r)

Spec == Init /\ [][Next]_vars

\* The scheduling the code relies on. The axios call is given a timeout
\* (`timeout: ... || 10000`): while the promise is pending the timer is
\* running, and when nothing else settles the promise first, the timer does,
\* with a rejection that has no response (ECONNABORTED). The event loop runs
\* every callback that is due: the listen callback, and the 'finish' listener
\* of a response that was written.
TimedOut ==
  [kind |-> "noresponse", status |-> 0, data |-> NoBody, code |-> "ECONNABORTED"]
TimeoutFires(r) == AxiosReject(r, TimedOut)
Fairness ==
  /\ WF_vars(Listen)
  /\ \A r \in Req : WF_vars(TimeoutFires(r)) /\ WF_vars(Finish(r))

\* Concurrent requests to three handlers that differ in shape: no forward;
\* logs before the forward and in a catch block that answers the downstream
\* status; a log after the forward and a catch block that answers 503.
ShapeRoutes == {Health, PostClaims, ChaosToggle}
ShapeRequests == {q \in InboundRequests : RouteOf(q) \in ShapeRoutes}
NextShapes ==
  \/ Listen
  \/ \E r \in Req, q \in ShapeRequests : Receive(r, q)
  \/ \E r \in Req, o \in Responses \cup Failures : AxiosResolve(r, o)
  \/ \E r \in Req, o \in Responses \cup Failures : AxiosReject(r, o)
  \/ \E r \in Req : Finish(r)
SpecShapes == Init /\ [][NextShapes]_vars
SpecLive == Init /\ [][NextShapes]_vars /\ Fairness

\* One request at a time, over a wider range of inputs than the concurrent
\* runs of Spec can afford: three identifiers, two payloads, downstream answers
\* with success, redirection, client-error and server-error statuses, and
\* three kinds of transport failure.
WideIds == Ids \cup {"UNKNOWN", "C%2F42"}
WidePayloads == Payloads \cup {[toggle |-> "latency"]}
WideStatuses == {200, 201, 304, 404, 500}
WideBodies == {[claimId |-> "C9"], [error |-> "not found"]}
WideRequests ==
  {[method |-> "GET", path |-> p, body |-> NoBody] :
     p \in {<<"health">>, <<"api", "claims">>, <<"api", "chaos", "status">>}
            \cup {<<"api", "claims", id>> : id \in WideIds}
            \cup {<<"api", "policy", id>> : id \in WideIds}
            \cup {<<"api", "policy", id, "coverage">> : id \in WideIds}
            \cup {<<"api", "investments", id>> : id \in WideIds}}
    \cup {[method |-> "POST", path |-> p, body |-> b] :
            p \in PostPaths, b \in WidePayloads}
WideOutcomes ==
  {[kind |-> "response", status |-> st, data |-> b, code |-> "none"] :
     st \in WideStatuses, b \in WideBodies}
    \cup {[kind |-> "noresponse", status |-> 0, data |-> NoBody, code |-> c] :
            c \in TransportCodes \cup {"ENOTFOUND"}}
NextOne ==
  \/ Listen
  \/ \E q \in WideRequests : Receive(1, q)
  \/ \E o \in WideOutcomes : AxiosResolve(1, o)
  \/ \E o \in WideOutcomes : AxiosReject(1, o)
  \/ Finish(1)
SpecOne == Init /\ [][NextOne]_vars

\* forwardRequest as a function of its inputs: one request is received and
\* forwarded, with any header map given as `headers` (SpecInject), and under
\* any value of REQUEST_TIMEOUT_MS (SpecTimeout).
InitInject ==
  /\ InitRequests
  /\ env = EnvUnset
  /\ hdrArg \in HeaderMaps
InitTimeout ==
  /\ InitRequests
  /\ env \in EnvValues
  /\ hdrArg = NoHeaders
NextCall ==
  \/ Listen
  \/ \E q \in InboundRequests : Receive(1, q)
SpecInject == InitInject /\ [][NextCall]_vars
SpecTimeout == InitTimeout /\ [][NextCall]_vars

\* The clock running. Under Spec all callbacks run within one millisecond
\* (now stays 0, every duration is 0); SpecClock lets Date.now() advance
\* between any two callbacks of requests to /health and POST /api/claims,
\* which differ in method, path and the statuses they end with.
ClockRoutes == {Health, PostClaims}
ClockRequests == {q \in InboundRequests : RouteOf(q) \in ClockRoutes}
NextClock ==
  \/ Listen
  \/ \E r \in Req, q \in ClockRequests : Receive(r, q)
  \/ \E r \in Req, o \in Responses \cup Failures : AxiosResolve(r, o)
  \/ \E r \in Req, o \in Responses \cup Failures : AxiosReject(r, o)
  \/ \E r \in Req : Finish(r)
  \/ Tick
SpecClock == Init /\ [][NextClock]_vars

\* ------------------------------------------------------- derived notions
Handler(r) == RouteOf(req[r])
Arrived(r) == pc[r] # "idle"
Answered(r) == pc[r] \in {"responded", "completed"}
Completed(r) == pc[r] = "completed"
\* the request went to one of the /api routes (every route but /health)
NonHealth(r) == Arrived(r) /\ req[r].path[1] = "api"
OnChaosRoute(r) == NonHealth(r) /\ req[r].path[2] = "chaos"
\* the downstream answered / the call ended without an answer
DownstreamResponded(r) == downstream[r].kind = "response"
NoDownstreamResponse(r) == downstream[r].kind = "noresponse"
\* forwardRequest threw: its catch block flagged the span
ForwardThrew(r) == \E i \in DOMAIN spans[r] : spans[r][i].error
Count(seq, x) == Len(SelectSeq(seq, LAMBDA e : e = x))
\* the label record of a finished request, with the status written out
LabelsOf(r, status) ==
  [method |-> req[r].method, route |-> req[r].path, status |-> status]
\* the completed requests whose labels are those of r
SameLabels(r) ==
  {x \in Req : /\ Completed(x)
               /\ req[x].method = req[r].method
               /\ req[x].path = req[r].path
               /\ res[x].statusCode = res[r].statusCode}
GatewayErrorTexts ==
  {"Claims service unavailable", "Policy service unavailable",
   "Investment service unavailable", "Chaos controller unavailable"}
IsGatewayErrorBody(body) ==
  "error" \in DOMAIN body /\ body.error \in GatewayErrorTexts

\* ------------------------------------------------------------------ C1
\* C1 (as claimed): on every non-health route, when the forward fails the
\* client gets the downstream's status if the downstream responded, and 503
\* if it did not.
C1_FailureStatusOnEveryRoute ==
  \A r \in Req :
    (NonHealth(r) /\ Answered(r) /\ ForwardThrew(r)) =>
      res[r].statusCode =
        (IF DownstreamResponded(r) THEN downstream[r].status ELSE 503)

\* ------------------------------------------------------------------ C2
\* C2 (as claimed): when the downstream answers with a success status s and
\* body b, the client gets status s and body b, the completion metrics carry
\* the label s, and the error counter is not incremented.
C2_SuccessPassThrough ==
  \A r \in Req :
    (NonHealth(r) /\ Answered(r) /\ DownstreamResponded(r)
       /\ downstream[r].status \in 200..299) =>
      /\ res[r].statusCode = downstream[r].status
      /\ res[r].body = downstream[r].data
      /\ Completed(r) =>
           /\ BagIn(LabelsOf(r, ToString(downstream[r].status)), requestCounter)
           /\ Count(events[r], "errorCounter.add") = 0

C4_TransportFailure ==
  \A r \in Req :
    (NonHealth(r) /\ Answered(r) /\ NoDownstreamResponse(r)) =>
      /\ res[r].statusCode = 503
      /\ res[r].sent = 1
      /\ IsGatewayErrorBody(res[r].body)
      /\ Len(spans[r]) = 1
      /\ spans[r][1].error /\ spans[r][1].exception # "none"
      /\ spans[r][1].ends = 1
      /\ Completed(r) =>
           /\ Count(events[r], "errorCounter.add") = 1
           /\ CopiesIn(LabelsOf(r, "503"), errorCounter)
                = Cardinality(SameLabels(r))

\* a policy request finished after the Policy service could not be reached
C4_Witness ==
  \E r \in Req :
    /\ Completed(r)
    /\ req[r].path = <<"api", "policy", "C42">>
    /\ NoDownstreamResponse(r) /\ downstream[r].code = "ECONNREFUSED"
    /\ res[r].statusCode = 503
    /\ BagIn(LabelsOf(r, "503"), errorCounter)

\* ------------------------------------------------------------------ C5
\* C5: every request that entered the middleware has, once its response is
\* finished, exactly one request-counter increment, one duration observation
\* and one 'Request completed' log record, whatever path it took; before
\* that it has none, and the two meters hold one sample per finished request.
FinishedRequests == {r \in Req : Completed(r)}

C5_OneCompletionPerRequest ==
  /\ \A r \in Req :
       LET n == IF Completed(r) THEN 1 ELSE 0 IN
       /\ Count(events[r], "requestCounter.add") = n
       /\ Count(events[r], "requestDuration.record") = n
       /\ Count(events[r], "Request completed") = n
       /\ Count(events[r], "Incoming request") = (IF Arrived(r) THEN 1 ELSE 0)
       /\ Completed(r) =>
            /\ CopiesIn(LabelsOf(r, ToString(res[r].statusCode)), requestCounter)
                 = Cardinality(SameLabels(r))
            /\ \E o \in BagToSet(requestDuration) :
                 o.labels = LabelsOf(r, ToString(res[r].statusCode))
  /\ BagCardinality(requestCounter) = Cardinality(FinishedRequests)
  /\ BagCardinality(requestDuration) = Cardinality(FinishedRequests)

\* a /health request and a request whose downstream answered 404 both finished
C5_Witness ==
  \E r, x \in Req :
    /\ Completed(r) /\ req[r].path = <<"health">>
    /\ Completed(x) /\ NonHealth(x) /\ DownstreamResponded(x)
    /\ downstream[x].status = 404
    /\ BagCardinality(requestCounter) = 2

\* ------------------------------------------------------------------ C6
\* C6: for every finished request the error counter was incremented if and
\* only if the final status code is >= 400, downstream application errors
\* included; the counter holds one sample per such request and no other.
C6_ErrorCountedIffStatusAtLeast400 ==
  /\ \A r \in Req :
       /\ Count(events[r], "errorCounter.add") <= 1
       /\ Count(events[r], "errorCounter.add") = 1
            <=> (Completed(r) /\ res[r].statusCode >= 400)
       /\ Completed(r) =>
            CopiesIn(LabelsOf(r, ToString(res[r].statusCode)), errorCounter)
              = (IF res[r].statusCode >= 400
                   THEN Cardinality(SameLabels(r)) ELSE 0)
  /\ BagCardinality(errorCounter)
       = Cardinality({r \in FinishedRequests : res[r].statusCode >= 400})

\* one finished request answered 404 by its downstream and counted as an
\* error, one finished below 400 and not counted
C6_Witness ==
  \E r, x \in Req :
    /\ Completed(r) /\ DownstreamResponded(r) /\ res[r].statusCode = 404
    /\ Count(events[r], "errorCounter.add") = 1
    /\ Completed(x) /\ NonHealth(x) /\ res[x].statusCode < 400
    /\ Count(events[x], "errorCounter.add") = 0
    /\ BagCardinality(errorCounter) = 1

\* ------------------------------------------------------------------ C7
\* C7: every span forwardRequest started is open while the outbound call is
\* in flight and has been ended exactly once when forwardRequest has
\* returned or thrown.
C7_SpanClosedExactlyOnce ==
  \A r \in Req :
    /\ \A i \in DOMAIN spans[r] :
         spans[r][i].ends = (IF Answered(r) THEN 1 ELSE 0)
    /\ Count(events[r], "span.end")
         = (IF Answered(r) THEN Count(events[r], "span.start") ELSE 0)

\* one forward returned and one forward threw, each with its span ended once
C7_Witness ==
  \E r, x \in Req :
    /\ Answered(r) /\ NonHealth(r) /\ ~ForwardThrew(r) /\ spans[r][1].ends = 1
    /\ Answered(x) /\ NonHealth(x) /\ ForwardThrew(x) /\ spans[x][1].ends = 1

C9_OneOutboundCallPerForwardedRequest ==
  \A r \in Req :
    LET n == IF NonHealth(r) THEN 1 ELSE 0 IN
    /\ Len(outbound[r]) = n
    /\ Len(spans[r]) = n
    /\ Count(events[r], "axios") = n

\* a forwarded request finished after its one call failed, a /health request
\* finished without any call
C9_Witness ==
  \E r, x \in Req :
    /\ Completed(r) /\ NonHealth(r) /\ NoDownstreamResponse(r)
    /\ Len(outbound[r]) = 1
    /\ Completed(x) /\ req[x].path = <<"health">> /\ Len(outbound[x]) = 0

\* ------------------------------------------------------------------ C10
\* C10: the forward span of a request is started after the request was
\* received and ended before the response is written, hence strictly before
\* the request completes: no span is open once the response is sent.
C10_ForwardSpanInsideRequest ==
  \A r \in Req :
    /\ Answered(r) => \A i \in DOMAIN spans[r] : spans[r][i].ends >= 1
    /\ LET ev == events[r]
           started == {i \in DOMAIN ev : ev[i] = "span.start"}
           ended == {i \in DOMAIN ev : ev[i] = "span.end"}
           answer == {i \in DOMAIN ev :
                        ev[i] \in {"res.json", "requestCounter.add",
                                   "Request completed"}}
       IN  /\ \A i \in started : i > 1 /\ ev[1] = "Incoming request"
           /\ \A i \in ended : \E j \in started : j < i
           /\ \A i \in ended : \A j \in answer : i < j
    /\ (Completed(r) /\ NonHealth(r)) =>
         /\ Count(events[r], "span.end") = 1
         /\ events[r][Len(events[r])] = "Request completed"

\* a forwarded request completed, its span ended before
C10_Witness ==
  \E r \in Req :
    /\ Completed(r) /\ NonHealth(r) /\ ~ForwardThrew(r)
    /\ spans[r][1].ends = 1
    /\ Count(events[r], "span.end") = 1

\* ------------------------------------------------------------------ C11
\* C11 (as claimed): the trace header of the outbound call carries the
\* context of the forward span: the trace of the request, and the spanId of
\* the 'forward {path}' span, which differs from the spanId of its parent.
C11_HeaderCarriesForwardSpan ==
  \A r \in Req :
    (NonHealth(r) /\ outbound[r] # <<>>) =>
      LET span == spans[r][1]
          headers == outbound[r][1].headers
      IN  /\ "traceparent" \in DOMAIN headers
          /\ span.traceId = ActiveSpan(r).traceId
          /\ span.spanId # span.parentSpanId
          /\ headers["traceparent"] =
               Traceparent([traceId |-> span.traceId, spanId |-> span.spanId])

\* ------------------------------------------------------------------ C12
\* C12: every outbound call ends, with a downstream response or with the
\* failure the timeout raises, so every request that was received reaches
\* completion; and while the outbound call of one request is pending, every
\* other request can take its next step (be received, have its own call
\* settled, complete).
C12_CanProceed(x) ==
  /\ pc[x] = "idle" => \E q \in InboundRequests : ENABLED Receive(x, q)
  /\ pc[x] = "awaiting" => ENABLED TimeoutFires(x)
  /\ pc[x] = "responded" => ENABLED Finish(x)
C12_EveryRequestCompletes ==
  /\ \A r \in Req : (pc[r] = "awaiting") ~> (pc[r] = "completed")
  /\ \A r \in Req : (pc[r] = "responded") ~> (pc[r] = "completed")
  /\ [](\A r \in Req : \A x \in Req \ {r} :
          pc[r] = "awaiting" => C12_CanProceed(x))

\* a request completed after its outbound call timed out, while the
\* outbound call of another request is pending
C12_Witness ==
  \E r \in Req : \E x \in Req \ {r} :
    /\ pc[r] = "awaiting"
    /\ Completed(x) /\ downstream[x] = TimedOut

\* ------------------------------------------------------------------ C13
\* C13: whatever the interleaving, the step that completes a request adds
\* one sample to the counter, one to the histogram and at most one to the
\* error counter, all with the one label triple built from that request's
\* method, path and final status, and the duration recorded is the time
\* since that request's own start.
C13_LabelsOf(r) ==
  [method |-> req[r].method, route |-> req[r].path,
   status |-> ToString(res[r].statusCode)]
C13_Completes(r) == pc[r] = "responded" /\ pc'[r] = "completed"
C13_OwnLabelsAndStart ==
  [][\A r \in Req :
       C13_Completes(r) =>
         LET labels == C13_LabelsOf(r)
             sample == [labels |-> labels, value |-> now - start[r]]
         IN  /\ requestCounter' = requestCounter (+) SetToBag({labels})
             /\ requestDuration' = requestDuration (+) SetToBag({sample})
             /\ errorCounter' \in
                  {errorCounter, errorCounter (+) SetToBag({labels})}]_vars

\* two requests that started at different times have completed, the earlier
\* one with an error status and a duration above zero
C13_Witness ==
  \E r \in Req : \E x \in Req \ {r} :
    /\ Completed(r) /\ Completed(x) /\ start[r] < start[x]
    /\ res[r].statusCode >= 400
    /\ BagIn(C13_LabelsOf(r), errorCounter)
    /\ \E v \in 1..MaxTime :
         BagIn([labels |-> C13_LabelsOf(r), value |-> v], requestDuration)

\* ------------------------------------------------------------------ C14
\* C14: a record written while a span is active carries the traceId, spanId
\* and traceFlags of that span, and a record written while none is active is
\* written all the same, without these fields. All records of one request
\* carry one traceId, that of the trace its forward span belongs to, and no
\* record carries the spanId of a span of a request running concurrently.
C14_TraceFields == {"traceId", "spanId", "traceFlags"}
C14_LogMessages ==
  {"Incoming request", "Forwarding claim submission", "Chaos toggle activated",
   "Claims service error", "Claims fetch error", "Claims list error",
   "Policy service error", "Coverage fetch error", "Investment service error",
   "Request completed"}
C14_RecordsCarryOwnTrace ==
  /\ \A i \in DOMAIN bootLog :
       /\ bootLog[i].message = "API Gateway started"
       /\ DOMAIN bootLog[i] \cap C14_TraceFields = {}
  /\ \A r \in Req :
       /\ Len(logs[r]) =
            Cardinality({i \in DOMAIN events[r] : events[r][i] \in C14_LogMessages})
       /\ \A i \in DOMAIN logs[r] :
            /\ C14_TraceFields \subseteq DOMAIN logs[r][i]
            /\ logs[r][i].traceId = logs[r][1].traceId
            /\ \A k \in DOMAIN spans[r] :
                 logs[r][i].traceId = spans[r][k].traceId
            /\ \A x \in Req \ {r} : \A j \in DOMAIN logs[x] :
                 logs[x][j].spanId # logs[r][i].spanId

\* the startup record was written outside any span; one request completed
\* with its three records while another, with two records so far, is waiting
\* for its downstream
C14_Witness ==
  /\ Len(bootLog) = 1
  /\ \E r \in Req : \E x \in Req \ {r} :
       /\ Completed(r) /\ Len(logs[r]) = 3
       /\ pc[x] = "awaiting" /\ Len(logs[x]) = 2

\* ------------------------------------------------------------------ C15
\* C15: the events of one request are ordered: the 'Incoming request' log
\* comes first, before the forward span and the outbound call; the
\* completion (counter, histogram, error counter if any, 'Request completed'
\* log) happens once, after the response was written; and the completion log
\* is the last event of the request, nothing follows it.
C15_Completion ==
  {"requestCounter.add", "requestDuration.record", "errorCounter.add",
   "Request completed"}
C15_ReceivedDispatchedCompleted ==
  \A r \in Req :
    LET ev == events[r]
        at(e) == {i \in DOMAIN ev : ev[i] = e}
        forward == at("span.start") \cup at("axios")
        written == at("res.json")
        completion == {i \in DOMAIN ev : ev[i] \in C15_Completion}
    IN  /\ Arrived(r) => ev[1] = "Incoming request"
        /\ at("Incoming request") \subseteq {1}
        /\ \A i \in forward : i > 1
        /\ \A i \in forward : \A j \in written \cup completion : i < j
        /\ \A i \in written : \A j \in completion : i < j
        /\ completion # {} => Cardinality(written) = 1
        /\ \A e \in C15_Completion : Cardinality(at(e)) <= 1
        /\ Completed(r) <=> at("Request completed") = {Len(ev)}
        /\ Completed(r) =>
              /\ Cardinality(at("requestCounter.add")) = 1
              /\ Cardinality(at("requestDuration.record")) = 1
              /\ logs[r][Len(logs[r])].message = "Request completed"
              /\ \A i \in DOMAIN logs[r] :
                   logs[r][i].message = "Request completed" => i = Len(logs[r])

\* a chaos toggle went through all three stages, with its log after the
\* forward and before the response
C15_Witness ==
  \E r \in Req :
    /\ Completed(r) /\ Handler(r) = ChaosToggle
    /\ events[r] =
         <<"Incoming request", "span.start", "axios", "span.end",
           "Chaos toggle activated", "res.json", "requestCounter.add",
           "requestDuration.record", "Request completed">>

\* ------------------------------------------------------------------ C16
\* C16: the trace header is injected into a copy: the header map the caller
\* passed is the same after the call; the outgoing map has every header of
\* the caller's map, each with its value, except that the trace header is set
\* (or overwritten) to the injected context; and injecting that context into
\* the outgoing map once more changes nothing.
C16_Forwards(r) == outbound[r] = <<>> /\ outbound'[r] # <<>>
C16_InjectionOnACopy ==
  [][/\ hdrArg' = hdrArg
     /\ \A r \in Req :
          C16_Forwards(r) =>
            LET out == outbound'[r][1].headers
                sent == Traceparent(ActiveSpan(r))
            IN  /\ DOMAIN hdrArg \cup {"traceparent"} \subseteq DOMAIN out
                /\ \A n \in DOMAIN hdrArg \ {"traceparent"} : out[n] = hdrArg[n]
                /\ out["traceparent"] = sent
                /\ Inject(ActiveSpan(r), out) = out]_vars

\* a call was forwarded for a caller whose map had a trace header of its own
\* and another header: the outgoing map differs from the caller's
C16_Witness ==
  \E r \in Req :
    /\ outbound[r] # <<>>
    /\ DOMAIN hdrArg = {"traceparent", "accept"}
    /\ outbound[r][1].headers # hdrArg
    /\ outbound[r][1].headers["accept"] = hdrArg["accept"]

\* ------------------------------------------------------------------ C17
\* C17 (as claimed): the outbound call of a forwarded route has the method of
\* the inbound request, its body unchanged (none for a GET), and as URL the
\* base URL of the service the route belongs to followed by the inbound path
\* without its /api prefix.
C17_ServiceOf(segment) ==
  CASE segment = "claims" -> SERVICES.claims
    [] segment = "policy" -> SERVICES.policy
    [] segment = "investments" -> SERVICES.investment
    [] segment = "chaos" -> SERVICES.chaos
C17_MethodBodyUrlPassThrough ==
  \A r \in Req :
    /\ (Arrived(r) /\ NonHealth(r)) => outbound[r] # <<>>
    /\ \A i \in DOMAIN outbound[r] :
         LET call == outbound[r][i]
             q == req[r]
         IN  /\ Head(q.path) = "api"
             /\ call.method = q.method
             /\ call.data = (IF q.method = "GET" THEN NoBody ELSE q.body)
             /\ call.url = <<C17_ServiceOf(q.path[2])>> \o Tail(q.path)

\* ------------------------------------------------------------------ C18
\* C18 (as claimed): a request to a forwarded route gets exactly one
\* response: the downstream's data only if the forward returned, and
\* otherwise one error response, with the gateway's error body and a status
\* of at least 400; no handler answers twice, and none has finished without
\* answering.
C18_ExactlyOneResponse ==
  \A r \in Req :
    NonHealth(r) =>
      /\ pc[r] = "awaiting" => res[r].sent = 0
      /\ Answered(r) =>
           /\ res[r].sent = 1
           /\ Count(events[r], "res.json") = 1
           /\ ~ForwardThrew(r) =>
                /\ DownstreamResponded(r)
                /\ res[r].body = downstream[r].data
           /\ ForwardThrew(r) =>
                /\ IsGatewayErrorBody(res[r].body)
                /\ res[r].statusCode >= 400

\* ------------------------------------------------------------------ C19
\* C19 (as claimed): whatever REQUEST_TIMEOUT_MS is (unset, not a number,
\* zero, negative, a positive integer), the timeout of the outbound call is a
\* positive number: the configured value when that is a positive integer,
\* and 10000 otherwise.
C19_IsPositiveInteger(e) ==
  /\ e.set /\ e.chars # <<>>
  /\ \A i \in DOMAIN e.chars : IsDigit(e.chars[i])
  /\ \E i \in DOMAIN e.chars : e.chars[i] # "0"
C19_TimeoutAlwaysPositive ==
  \A r \in Req : \A i \in DOMAIN outbound[r] :
    LET timeout == outbound[r][i].timeout IN
    /\ timeout > 0
    /\ C19_IsPositiveInteger(env) => timeout = ReadDigits(env.chars, 0, 0).value
    /\ ~C19_IsPositiveInteger(env) => timeout = 10000

====
